---- MODULE Spec2Model ----
(***************************************************************************)
(* Model of the zk-calculator arithmetic chips (halo2).                    *)
(*                                                                         *)
(*   src/src/chips/arithmetic.rs   ArithmeticChip (composition layer)      *)
(*   src/src/chips/sub.rs          SubChip (subtraction gate)              *)
(*   src/src/chips/mul.rs          MulChip (multiplication gate)           *)
(*   chips/add.rs                  AddChip (not among the sources; the     *)
(*                                 addition gate is modelled from the      *)
(*                                 written specification)                  *)
(*                                                                         *)
(* The state is the constraint system built by configure, the layouter's   *)
(* column usage, the advice cells, the enabled selectors, the registered   *)
(* equality constraints, the Number handles returned to the caller and the *)
(* log of the calls the caller made.                                       *)
(***************************************************************************)
EXTENDS Integers, Sequences, FiniteSets, TLC

\* ------------------------------------------------------------------------
\* Bounds
\* ------------------------------------------------------------------------

\* modulus of the field the model computes in (F: FieldExt)
P == 3

\* number of load/add/sub/mul/expose calls of one synthesis
MaxCalls == 3

\* rows of the instance column a caller may expose to
MaxInstanceRows == 2

\* ------------------------------------------------------------------------
\* Field values and Value<F>
\* ------------------------------------------------------------------------

Field == 0 .. (P - 1)

\* Value<F>: <<v>> is a known value, <<>> is Value::unknown()
Known(v) == <<v>>

ValueUnknown == <<>>

ValueSet == {ValueUnknown} \cup {Known(v) : v \in Field}

IsKnown(val) == val # ValueUnknown

FAdd(x, y) == (x + y) % P

\* a fixed-width (non-field) difference
FSubWrapping(x, y) == (x - y) % (P + 1)

FSub(x, y) == (x - y) % P

\* a fixed-width (non-field) product
FMulWrapping(x, y) == (x * y) % (P + 1)

FMul(x, y) == (x * y) % P

ValueAdd(x, y) ==
    IF IsKnown(x) /\ IsKnown(y) THEN Known(FAdd(x[1], y[1])) ELSE ValueUnknown

ValueSub(x, y) ==
    IF IsKnown(x) /\ IsKnown(y) THEN Known(FSub(x[1], y[1])) ELSE ValueUnknown

ValueMul(x, y) ==
    IF IsKnown(x) /\ IsKnown(y) THEN Known(FMul(x[1], y[1])) ELSE ValueUnknown

\* ------------------------------------------------------------------------
\* Columns and cells
\* ------------------------------------------------------------------------

\* the columns the circuit hands to ArithmeticChip::configure
ColA == <<"advice", 0>>

ColB == <<"advice", 1>>

ColInstance == <<"instance", 0>>

\* the region column of a selector
SelCol(sel) == <<"selector", sel>>

Cell(col, row) == <<col, row>>

\* ------------------------------------------------------------------------
\* State
\* ------------------------------------------------------------------------

VARIABLES
    meta,       \* ConstraintSystem: equality-enabled columns, selectors, gates
    config,     \* <<>> before configure, <<ArithmeticConfig>> after
    columns,    \* layouter: column -> first row not used by any region
    advice,     \* assigned advice cells: cell -> Value<F>
    selectors,  \* enabled selectors: set of <<selector, row>>
    copies,     \* registered equality constraints, in registration order
    handles,    \* the Number handles returned so far, in creation order
    calls       \* log of the calls made, in call order

vars == <<meta, config, columns, advice, selectors, copies, handles, calls>>

Init ==
    /\ meta = [equality |-> {}, num_selectors |-> 0, gates |-> <<>>]
    /\ config = <<>>
    /\ columns = <<>>
    /\ advice = <<>>
    /\ selectors = {}
    /\ copies = <<>>
    /\ handles = <<>>
    /\ calls = <<>>


Configured == config # <<>>

\* the last call returned a synthesis error: the caller's `?` ends synthesis
Failed == calls # <<>> /\ calls[Len(calls)].err # "none"

\* ------------------------------------------------------------------------
\* Configuration
\* ------------------------------------------------------------------------

\* meta.enable_equality(column)
EnableEquality(m, col) == [m EXCEPT !.equality = @ \cup {col}]

\* a selector that is not fresh: the one handed out before
NewSelectorReused(m) == IF m.num_selectors = 0 THEN 0 ELSE m.num_selectors - 1

\* meta.selector(): the index of the selector handed out
NewSelector(m) == m.num_selectors

\* meta.selector() followed by meta.create_gate(name, ...) with the
\* polynomial selector * poly(a_cur, b_cur, a_next)
CreateGate(m, name, sel, a, b) ==
    [m EXCEPT !.num_selectors = IF sel + 1 > @ THEN sel + 1 ELSE @,
              !.gates = Append(@, [name |-> name, sel |-> sel, a |-> a, b |-> b])]

\* AddChip::configure
AddChip_configure(m, a, b) ==
    LET m1 == EnableEquality(EnableEquality(m, a), b)
        sel_add == NewSelector(m1)
    IN  [meta |-> CreateGate(m1, "add", sel_add, a, b),
         config |-> [a |-> a, b |-> b, sel_add |-> sel_add]]

\* SubChip::configure
SubChip_configure(m, a, b) ==
    LET m1 == EnableEquality(EnableEquality(m, a), b)
        sel_sub == NewSelector(m1)
    IN  [meta |-> CreateGate(m1, "sub", sel_sub, a, b),
         config |-> [a |-> a, b |-> b, sel_sub |-> sel_sub]]

\* MulChip::configure
MulChip_configure(m, a, b) ==
    LET m1 == EnableEquality(EnableEquality(m, a), b)
        sel_mul == NewSelector(m1)
    IN  [meta |-> CreateGate(m1, "mul", sel_mul, a, b),
         config |-> [a |-> a, b |-> b, sel_mul |-> sel_mul]]

\* the polynomial of the add gate at one row: lhs + rhs - out
AddGatePoly(lhs, rhs, out) == FSub(FAdd(lhs, rhs), out)

\* the polynomial of the sub gate at one row: lhs - rhs - out
SubGatePoly(lhs, rhs, out) == FSub(FSub(lhs, rhs), out)

\* the polynomial of the mul gate at one row: lhs * rhs - out
MulGatePoly(lhs, rhs, out) == FSub(FMul(lhs, rhs), out)

\* the polynomial registered under a gate's name; the gate's identity
\* holds at a row where its selector is off or the polynomial is zero
GatePoly(name, lhs, rhs, out) ==
    CASE name = "add" -> AddGatePoly(lhs, rhs, out)
      [] name = "sub" -> SubGatePoly(lhs, rhs, out)
      [] name = "mul" -> MulGatePoly(lhs, rhs, out)

\* self.config().add_config / .sub_config / .mul_config
ArithmeticChip_add_config(cfg) == cfg.add_config

ArithmeticChip_sub_config(cfg) == cfg.sub_config

ArithmeticChip_mul_config(cfg) == cfg.mul_config

\* ArithmeticChip::configure
Configure ==
    /\ ~Configured
    /\ LET add == AddChip_configure(meta, ColA, ColB)
           sub == SubChip_configure(add.meta, ColA, ColB)
           mul == MulChip_configure(sub.meta, ColA, ColB)
       IN  /\ meta' = EnableEquality(mul.meta, ColInstance)
           /\ config' = <<[a |-> ColA, b |-> ColB, instance |-> ColInstance,
                           add_config |-> add.config,
                           sub_config |-> sub.config,
                           mul_config |-> mul.config]>>
    /\ UNCHANGED <<columns, advice, selectors, copies, handles, calls>>

\* ------------------------------------------------------------------------
\* The layouter and the region of one call
\* ------------------------------------------------------------------------

ColumnUse(col) == IF col \in DOMAIN columns THEN columns[col] ELSE 0

SetMax(S) == CHOOSE x \in S : \A y \in S : y <= x

\* a layouter that lays a region over the rows of the last one
RegionStartReuse(cols) ==
    LET m == SetMax({ColumnUse(c) : c \in cols})
    IN  IF m >= 2 /\ Cardinality(cols) > 1 THEN m - 2 ELSE m

\* a layouter that starts a region where the first of its columns is free
RegionStartEarliest(cols) ==
    CHOOSE x \in {ColumnUse(c) : c \in cols} :
        \A y \in {ColumnUse(c) : c \in cols} : x <= y

\* the first row of a new region: the earliest row at which none of the
\* region's columns is in use
RegionStart(cols) == SetMax({ColumnUse(c) : c \in cols})

\* a usage update that forgets the region's last row
ColumnsAfterShort(cols, start, row_count) ==
    [c \in DOMAIN columns \cup cols |->
        IF c \in cols THEN start + row_count - 1 ELSE columns[c]]

\* the column usage after a region of row_count rows was laid out at start
ColumnsAfter(cols, start, row_count) ==
    [c \in DOMAIN columns \cup cols |->
        IF c \in cols THEN start + row_count ELSE columns[c]]

\* the assignment state a region closure works on
RegionOf == [advice |-> advice, selectors |-> selectors, copies |-> copies,
             err |-> "none"]

\* a step whose error is ignored: the steps after it still run
TryIgnoringErrors(R, step, fail, next) ==
    IF R.err = "none" /\ fail = step THEN [next EXCEPT !.err = step] ELSE next

\* `step?`: a step is run only if no earlier step failed; when it fails the
\* error is returned and nothing after it runs
Try(R, step, fail, next) ==
    IF R.err # "none" THEN R
    ELSE IF fail = step THEN [R EXCEPT !.err = step]
    ELSE next

\* a selector enabled one row too late
EnableNextRow(R, sel, row) ==
    [R EXCEPT !.selectors = @ \cup {<<sel, row + 1>>}]

\* selector.enable(&mut region, offset)
Enable(R, sel, row) == [R EXCEPT !.selectors = @ \cup {<<sel, row>>}]

\* region.assign_advice(column, offset, value)
AssignAdvice(R, col, row, val) ==
    [R EXCEPT !.advice =
        [c \in DOMAIN @ \cup {Cell(col, row)} |->
            IF c = Cell(col, row) THEN val ELSE @[c]]]

\* region.constrain_equal / layouter.constrain_instance: legal only between
\* columns on which equality was enabled
ConstrainEqual(R, left, right) ==
    IF {left[1], right[1]} \subseteq meta.equality
    THEN [R EXCEPT !.copies = Append(@, <<left, right>>)]
    ELSE [R EXCEPT !.err = "not_in_permutation"]

\* a copy that ties the new cell to itself instead of the operand's cell
CopyAdviceUnbound(R, num, col, row, stepAssign, stepEqual, fail) ==
    LET r1 == Try(R, stepAssign, fail, AssignAdvice(R, col, row, num.value))
    IN  Try(r1, stepEqual, fail,
            ConstrainEqual(r1, Cell(col, row), Cell(col, row)))

\* AssignedCell::copy_advice: assign the operand's value to (col, row), then
\* constrain the new cell equal to the operand's cell
CopyAdvice(R, num, col, row, stepAssign, stepEqual, fail) ==
    LET r1 == Try(R, stepAssign, fail, AssignAdvice(R, col, row, num.value))
    IN  Try(r1, stepEqual, fail, ConstrainEqual(r1, Cell(col, row), num.cell))

\* Number(AssignedCell): the handle of a result cell
Number(cell, val) == [cell |-> cell, value |-> val]

\* layouter.assign_region: lay the region out, keep what its closure
\* assigned, and return Ok(Number) or the closure's error
AssignRegion(op, input, ia, ib, cols, start, row_count, R, cell, val) ==
    /\ columns' = ColumnsAfter(cols, start, row_count)
    /\ advice' = R.advice
    /\ selectors' = R.selectors
    /\ copies' = R.copies
    /\ handles' = IF R.err = "none" THEN Append(handles, Number(cell, val))
                  ELSE handles
    /\ calls' = Append(calls,
            [op |-> op, input |-> input, a |-> ia, b |-> ib, row |-> 0,
             start |-> start, rows |-> row_count,
             result |-> IF R.err = "none" THEN Len(handles) + 1 ELSE 0,
             err |-> R.err])
    /\ UNCHANGED <<meta, config>>

CanCall == Configured /\ ~Failed /\ Len(calls) < MaxCalls


\* ------------------------------------------------------------------------
\* The composition layer: load_private and expose_public
\* ------------------------------------------------------------------------

\* ArithmeticChip::load_private
LoadPrivate(value, fail) ==
    /\ CanCall
    /\ LET cfg == config[1]
           start == RegionStart({cfg.a})
           r1 == Try(RegionOf, "private_input", fail,
                     AssignAdvice(RegionOf, cfg.a, start + 0, value))
       IN  AssignRegion("load_private", value, 0, 0, {cfg.a}, start, 1, r1,
                        Cell(cfg.a, start + 0), value)

\* an exposure that constrains the instance cell one row further down
ExposePublicShifted(i, row, fail) ==
    /\ CanCall
    /\ i \in 1 .. Len(handles)
    /\ LET cfg == config[1]
           num == handles[i]
           r1 == Try(RegionOf, "constrain_instance", fail,
                     ConstrainEqual(RegionOf, num.cell,
                                    Cell(cfg.instance, row + 1)))
       IN  /\ copies' = r1.copies
           /\ calls' = Append(calls,
                [op |-> "expose_public", input |-> ValueUnknown, a |-> i,
                 b |-> 0, row |-> row, start |-> 0, rows |-> 0, result |-> 0,
                 err |-> r1.err])
    /\ UNCHANGED <<meta, config, columns, advice, selectors, handles>>

\* ArithmeticChip::expose_public
ExposePublic(i, row, fail) ==
    /\ CanCall
    /\ i \in 1 .. Len(handles)
    /\ LET cfg == config[1]
           num == handles[i]
           r1 == Try(RegionOf, "constrain_instance", fail,
                     ConstrainEqual(RegionOf, num.cell,
                                    Cell(cfg.instance, row)))
       IN  /\ copies' = r1.copies
           /\ calls' = Append(calls,
                [op |-> "expose_public", input |-> ValueUnknown, a |-> i,
                 b |-> 0, row |-> row, start |-> 0, rows |-> 0, result |-> 0,
                 err |-> r1.err])
    /\ UNCHANGED <<meta, config, columns, advice, selectors, handles>>

\* ------------------------------------------------------------------------
\* The gates
\* ------------------------------------------------------------------------

\* the steps of a gate's region closure, in the order they run
GateSteps ==
    <<"enable", "lhs_assign", "lhs_equal", "rhs_assign", "rhs_equal", "out">>

GateFailures == {GateSteps[k] : k \in DOMAIN GateSteps}

\* SubChip::sub
SubChip_sub(ia, ib, fail) ==
    LET cfg == ArithmeticChip_sub_config(config[1])
        a == handles[ia]
        b == handles[ib]
        cols == {SelCol(cfg.sel_sub), cfg.a, cfg.b}
        start == RegionStart(cols)
        r0 == RegionOf
        r1 == Try(r0, "enable", fail, Enable(r0, cfg.sel_sub, start + 0))
        r2 == CopyAdvice(r1, a, cfg.a, start + 0, "lhs_assign", "lhs_equal", fail)
        r3 == CopyAdvice(r2, b, cfg.b, start + 0, "rhs_assign", "rhs_equal", fail)
        c == ValueSub(a.value, b.value)
        r4 == Try(r3, "out", fail, AssignAdvice(r3, cfg.a, start + 1, c))
    IN  AssignRegion("sub", ValueUnknown, ia, ib, cols, start, 2, r4,
                     Cell(cfg.a, start + 1), c)

\* MulChip::mul
MulChip_mul(ia, ib, fail) ==
    LET cfg == ArithmeticChip_mul_config(config[1])
        a == handles[ia]
        b == handles[ib]
        cols == {SelCol(cfg.sel_mul), cfg.a, cfg.b}
        start == RegionStart(cols)
        r0 == RegionOf
        r1 == Try(r0, "enable", fail, Enable(r0, cfg.sel_mul, start + 0))
        r2 == CopyAdvice(r1, a, cfg.a, start + 0, "lhs_assign", "lhs_equal", fail)
        r3 == CopyAdvice(r2, b, cfg.b, start + 0, "rhs_assign", "rhs_equal", fail)
        c == ValueMul(a.value, b.value)
        r4 == Try(r3, "out", fail, AssignAdvice(r3, cfg.a, start + 1, c))
    IN  AssignRegion("mul", ValueUnknown, ia, ib, cols, start, 2, r4,
                     Cell(cfg.a, start + 1), c)

\* AddChip::add
AddChip_add(ia, ib, fail) ==
    LET cfg == ArithmeticChip_add_config(config[1])
        a == handles[ia]
        b == handles[ib]
        cols == {SelCol(cfg.sel_add), cfg.a, cfg.b}
        start == RegionStart(cols)
        r0 == RegionOf
        r1 == Try(r0, "enable", fail, Enable(r0, cfg.sel_add, start + 0))
        r2 == CopyAdvice(r1, a, cfg.a, start + 0, "lhs_assign", "lhs_equal", fail)
        r3 == CopyAdvice(r2, b, cfg.b, start + 0, "rhs_assign", "rhs_equal", fail)
        c == ValueAdd(a.value, b.value)
        r4 == Try(r3, "out", fail, AssignAdvice(r3, cfg.a, start + 1, c))
    IN  AssignRegion("add", ValueUnknown, ia, ib, cols, start, 2, r4,
                     Cell(cfg.a, start + 1), c)

\* ArithmeticChip::add
Add(ia, ib, fail) ==
    /\ CanCall
    /\ ia \in 1 .. Len(handles) /\ ib \in 1 .. Len(handles)
    /\ AddChip_add(ia, ib, fail)

\* ArithmeticChip::mul
Mul(ia, ib, fail) ==
    /\ CanCall
    /\ ia \in 1 .. Len(handles) /\ ib \in 1 .. Len(handles)
    /\ MulChip_mul(ia, ib, fail)

\* ArithmeticChip::sub
Sub(ia, ib, fail) ==
    /\ CanCall
    /\ ia \in 1 .. Len(handles) /\ ib \in 1 .. Len(handles)
    /\ SubChip_sub(ia, ib, fail)

\* ------------------------------------------------------------------------
\* Specification
\* ------------------------------------------------------------------------

\* the handles the caller holds and may pass to the next call
Operands == IF CanCall THEN DOMAIN handles ELSE {}

Next ==
    \/ Configure
    \/ \E value \in ValueSet, fail \in {"none", "private_input"} :
            LoadPrivate(value, fail)
    \/ \E i \in Operands, row \in 0 .. (MaxInstanceRows - 1),
          fail \in {"none", "constrain_instance"} : ExposePublic(i, row, fail)
    \/ \E ia \in Operands, ib \in Operands,
          fail \in GateFailures \cup {"none"} : Add(ia, ib, fail)
    \/ \E ia \in Operands, ib \in Operands,
          fail \in GateFailures \cup {"none"} : Sub(ia, ib, fail)
    \/ \E ia \in Operands, ib \in Operands,
          fail \in GateFailures \cup {"none"} : Mul(ia, ib, fail)

Spec == Init /\ [][Next]_vars


\* ------------------------------------------------------------------------
\* Vocabulary of the properties
\* ------------------------------------------------------------------------

GateOps == {"add", "sub", "mul"}

\* the calls that returned Ok
OkCalls == {k \in DOMAIN calls : calls[k].err = "none"}

OkGateCalls == {k \in OkCalls : calls[k].op \in GateOps}

\* the call that returned handle i
Producer(i) == CHOOSE k \in DOMAIN calls : calls[k].result = i

IsLoaded(i) == calls[Producer(i)].op = "load_private"

\* the operation computed directly over the integers modulo P
PureOp(op, x, y) ==
    CASE op = "add" -> (x + y) % P
      [] op = "sub" -> (x - y) % P
      [] op = "mul" -> (x * y) % P

\* the selector the configuration gave to a gate
SelectorOf(op) ==
    CASE op = "add" -> config[1].add_config.sel_add
      [] op = "sub" -> config[1].sub_config.sel_sub
      [] op = "mul" -> config[1].mul_config.sel_mul

\* ------------------------------------------------------------------------
\* C1
\* ------------------------------------------------------------------------

\* C1: a gate applied to two loaded field values a and b returns a handle
\* holding (a+b) mod P, (a-b) mod P or (a*b) mod P, the field result, also
\* where the integer result leaves 0 .. P-1.
C1_FieldResult ==
    \A k \in OkGateCalls :
        LET c == calls[k]
            x == calls[Producer(c.a)].input
            y == calls[Producer(c.b)].input
        IN  (IsLoaded(c.a) /\ IsLoaded(c.b) /\ IsKnown(x) /\ IsKnown(y)) =>
                /\ handles[c.result].value = Known(PureOp(c.op, x[1], y[1]))
                /\ handles[c.result].value[1] \in Field

\* a subtraction of loaded values below zero (0 - 1 = P - 1) has returned
C1_Witness ==
    \E k \in OkGateCalls :
        LET c == calls[k]
            x == calls[Producer(c.a)].input
            y == calls[Producer(c.b)].input
        IN  /\ c.op = "sub" /\ IsLoaded(c.a) /\ IsLoaded(c.b)
            /\ x = Known(0) /\ y = Known(1)
            /\ handles[c.result].value = Known(P - 1)


\* ------------------------------------------------------------------------
\* C2
\* ------------------------------------------------------------------------

\* the expression a handle stands for, evaluated directly over the field:
\* the loaded input at a leaf, the operation on the operands' expressions
\* elsewhere
RECURSIVE Eval(_)
Eval(i) ==
    LET c == calls[Producer(i)]
    IN  IF c.op = "load_private" THEN c.input
        ELSE LET x == Eval(c.a)
                 y == Eval(c.b)
             IN  IF IsKnown(x) /\ IsKnown(y)
                 THEN Known(PureOp(c.op, x[1], y[1]))
                 ELSE ValueUnknown

\* C2: after every sequence of add, mul and sub calls chained on loaded
\* values, each handle (the final one included) holds the value of the
\* equivalent pure expression over the field, and so does its cell.
C2_ChainEqualsExpression ==
    \A i \in DOMAIN handles :
        /\ handles[i].value = Eval(i)
        /\ handles[i].cell \in DOMAIN advice
        /\ advice[handles[i].cell] = Eval(i)

\* add on loaded values, then mul of add's result with a loaded value, the
\* product known and not zero
C2_Witness ==
    \E k1, k2 \in OkGateCalls :
        /\ calls[k1].op = "add" /\ calls[k2].op = "mul"
        /\ IsLoaded(calls[k1].a) /\ IsLoaded(calls[k1].b)
        /\ calls[k2].a = calls[k1].result
        /\ IsLoaded(calls[k2].b)
        /\ IsKnown(handles[calls[k2].result].value)
        /\ handles[calls[k2].result].value # Known(0)

\* ------------------------------------------------------------------------
\* C4
\* ------------------------------------------------------------------------

\* C4: two calls of the same operation on the same pair of handles return
\* handles bound to two distinct result cells holding identical values.
C4_NoMemoization ==
    \A j, k \in OkGateCalls :
        (j < k /\ calls[j].op = calls[k].op
               /\ calls[j].a = calls[k].a /\ calls[j].b = calls[k].b) =>
            /\ calls[j].result # calls[k].result
            /\ handles[calls[j].result].cell # handles[calls[k].result].cell
            /\ handles[calls[j].result].value = handles[calls[k].result].value
            /\ advice[handles[calls[j].result].cell]
                 = advice[handles[calls[k].result].cell]

\* the same gate was applied twice to the same pair of handles
C4_Witness ==
    \E j, k \in OkGateCalls :
        /\ j < k /\ calls[j].op = calls[k].op /\ calls[j].op \in {"sub", "mul"}
        /\ calls[j].a = calls[k].a /\ calls[j].b = calls[k].b
        /\ IsKnown(handles[calls[k].result].value)

\* ------------------------------------------------------------------------
\* C5
\* ------------------------------------------------------------------------

\* C5: in the region of every gate call that returned, row 0 of column a
\* holds the first operand, row 0 of column b the second operand, row 1 of
\* column a the result, and the gate's selector is enabled at row 0 of the
\* region and at no other row of it.
C5_RegionLayout ==
    \A k \in OkGateCalls :
        LET c == calls[k]
            row0 == c.start
            row1 == c.start + 1
        IN  /\ c.rows = 2
            /\ {Cell(ColA, row0), Cell(ColB, row0), Cell(ColA, row1)}
                   \subseteq DOMAIN advice
            /\ Cell(ColB, row1) \notin DOMAIN advice
            /\ advice[Cell(ColA, row0)] = handles[c.a].value
            /\ advice[Cell(ColB, row0)] = handles[c.b].value
            /\ advice[Cell(ColA, row1)] = handles[c.result].value
            /\ handles[c.result].cell = Cell(ColA, row1)
            /\ IsKnown(handles[c.a].value) /\ IsKnown(handles[c.b].value) =>
                   advice[Cell(ColA, row1)] =
                       Known(PureOp(c.op, handles[c.a].value[1],
                                    handles[c.b].value[1]))
            /\ <<SelectorOf(c.op), row0>> \in selectors
            /\ <<SelectorOf(c.op), row1>> \notin selectors

\* a sub or mul region whose two operands differ
C5_Witness ==
    \E k \in OkGateCalls :
        /\ calls[k].op \in {"sub", "mul"}
        /\ IsKnown(handles[calls[k].a].value)
        /\ IsKnown(handles[calls[k].b].value)
        /\ handles[calls[k].a].value # handles[calls[k].b].value
        /\ calls[k].start > 0


\* ------------------------------------------------------------------------
\* C3
\* ------------------------------------------------------------------------

\* the rows of the instance column, the exposable ones and the one after
InstanceRows == 0 .. MaxInstanceRows

\* an instance column (row -> field value) that satisfies every registered
\* equality constraint on an instance cell whose advice side is known
SatisfiesInstance(inst) ==
    \A n \in DOMAIN copies :
        LET left == copies[n][1]
            right == copies[n][2]
        IN  (right[1] = ColInstance /\ IsKnown(advice[left])) =>
                inst[right[2]] = advice[left][1]

\* the call just made, if a call was made in this step
CallMade == calls' # calls

LastCall == calls'[Len(calls')]

\* what a successful expose_public(v, row) step does
C3_ExposeStep ==
    (CallMade /\ LastCall.op = "expose_public" /\ LastCall.err = "none") =>
        LET v == handles[LastCall.a]
        IN  /\ copies' = Append(copies,
                                <<v.cell, Cell(ColInstance, LastCall.row)>>)
            /\ UNCHANGED <<advice, columns, selectors, handles>>
            /\ \A inst \in [InstanceRows -> Field] :
                   (SatisfiesInstance(inst)' /\ IsKnown(v.value)) =>
                       inst[LastCall.row] = v.value[1]

\* C3: expose_public(v, row) registers exactly one equality constraint,
\* between v's bound cell and the instance cell at row, so that the instance
\* column reads v's value at that row; it assigns no advice cell, allocates
\* no region and copies no value.
C3_ExposePublic == [][C3_ExposeStep]_vars

\* a gate result with a known value was exposed at row 1
C3_Witness ==
    \E k \in OkCalls :
        /\ calls[k].op = "expose_public" /\ calls[k].row = 1
        /\ ~IsLoaded(calls[k].a)
        /\ IsKnown(handles[calls[k].a].value)
        /\ Len(copies) = 3

\* ------------------------------------------------------------------------
\* C6
\* ------------------------------------------------------------------------

\* no handle and no assigned cell changes in a step, and a handle created
\* in the step is bound to a cell that was unassigned before it
C6_HandleStep ==
    /\ \A i \in DOMAIN handles :
           /\ i \in DOMAIN handles'
           /\ handles'[i] = handles[i]
    /\ \A c \in DOMAIN advice :
           /\ c \in DOMAIN advice'
           /\ advice'[c] = advice[c]
    /\ \A i \in DOMAIN handles' \ DOMAIN handles :
           /\ handles'[i].cell \notin DOMAIN advice
           /\ \A j \in DOMAIN handles : handles[j].cell # handles'[i].cell

\* C6: a handle's bound cell and held value never change after the handle is
\* created; no later call overwrites a cell an existing handle is bound to,
\* and every operation writes its result into a previously unassigned cell.
C6_HandlesImmutable == [][C6_HandleStep]_vars

\* a gate has written its result while two earlier handles exist
C6_Witness ==
    /\ Len(handles) = 3
    /\ Cardinality({handles[i].cell : i \in DOMAIN handles}) = 3
    /\ \E k \in OkGateCalls : calls[k].result = 3 /\ calls[k].op # "add"

\* ------------------------------------------------------------------------
\* C7
\* ------------------------------------------------------------------------

StepIndex(step) == CHOOSE n \in DOMAIN GateSteps : GateSteps[n] = step

\* a step of the gate closure that comes before the failing one has run
RanBefore(step, failure) == StepIndex(step) < StepIndex(failure)

\* what a call that returns a synthesis error leaves behind
C7_ErrorStep ==
    (CallMade /\ LastCall.err # "none") =>
        LET c == LastCall
            row0 == c.start
        IN  /\ Len(calls') = Len(calls) + 1
            /\ handles' = handles
            /\ c.result = 0
            /\ c.op = "load_private" => advice' = advice /\ copies' = copies
            /\ c.op = "expose_public" => advice' = advice /\ copies' = copies
            /\ c.op \in GateOps =>
                   /\ c.err \in GateFailures
                   /\ (<<SelectorOf(c.op), row0>> \in selectors')
                          <=> RanBefore("enable", c.err)
                   /\ (Cell(ColA, row0) \in DOMAIN advice')
                          <=> RanBefore("lhs_assign", c.err)
                   /\ (Cell(ColB, row0) \in DOMAIN advice')
                          <=> RanBefore("rhs_assign", c.err)
                   /\ Cell(ColA, row0 + 1) \notin DOMAIN advice'
                   /\ Len(copies') = Len(copies)
                        + (IF RanBefore("lhs_equal", c.err) THEN 1 ELSE 0)
                        + (IF RanBefore("rhs_equal", c.err) THEN 1 ELSE 0)

\* C7: when a step of an operation fails, the operation returns that error at
\* once: the steps after it are not performed, no handle is returned, and
\* nothing is retried or substituted.
C7_FailFast == [][C7_ErrorStep]_vars

\* a sub or mul call failed while copying its second operand
C7_Witness ==
    /\ Failed
    /\ calls[Len(calls)].op \in {"sub", "mul"}
    /\ calls[Len(calls)].err = "rhs_assign"
    /\ Len(handles) = 2

\* ------------------------------------------------------------------------
\* C8
\* ------------------------------------------------------------------------

\* what a successful gate call registers
C8_CopyStep ==
    (CallMade /\ LastCall.op \in GateOps /\ LastCall.err = "none") =>
        LET c == LastCall
            a == handles[c.a]
            b == handles[c.b]
        IN  /\ copies' = copies \o << <<Cell(ColA, c.start), a.cell>>,
                                      <<Cell(ColB, c.start), b.cell>> >>
            /\ Cell(ColA, c.start) \notin DOMAIN advice
            /\ Cell(ColB, c.start) \notin DOMAIN advice
            /\ {ColA, ColB, a.cell[1], b.cell[1]} \subseteq meta.equality

\* C8: every apply(a, b) of a gate registers exactly two copy constraints,
\* one between a's bound cell and the new cell (column a, region row 0) and
\* one between b's bound cell and the new cell (column b, region row 0), in
\* that order of operands and between equality-enabled columns.
C8_TwoCopies == [][C8_CopyStep]_vars

\* a sub or mul call on two different handles has returned
C8_Witness ==
    \E k \in OkGateCalls :
        /\ calls[k].op \in {"sub", "mul"}
        /\ calls[k].a # calls[k].b
        /\ Len(copies) >= 2


\* ------------------------------------------------------------------------
\* C9
\* ------------------------------------------------------------------------

\* the calls that were given a region
RegionCalls == {k \in DOMAIN calls : calls[k].op # "expose_public"}

\* the rows of the region of call k
RowsOf(k) == calls[k].start .. (calls[k].start + calls[k].rows - 1)

\* the advice cells a call that returned has written
CellsOf(k) ==
    IF calls[k].op = "load_private" THEN {Cell(ColA, calls[k].start)}
    ELSE {Cell(ColA, calls[k].start), Cell(ColB, calls[k].start),
          Cell(ColA, calls[k].start + 1)}

\* C9: regions are assigned in call order and never share a row: a later
\* call's rows lie strictly after those of every earlier call, load_private
\* takes one row of column a and a gate call two consecutive rows, and no
\* two calls write the same cell.
C9_RegionsInCallOrder ==
    /\ \A j, k \in RegionCalls :
           j < k => calls[j].start + calls[j].rows <= calls[k].start
    /\ \A k \in RegionCalls :
           calls[k].rows = IF calls[k].op = "load_private" THEN 1 ELSE 2
    /\ \A k \in RegionCalls \cap OkCalls : CellsOf(k) \subseteq DOMAIN advice
    /\ \A c \in DOMAIN advice :
           Cardinality({k \in RegionCalls : c[2] \in RowsOf(k)}) = 1
    /\ \A j, k \in RegionCalls \cap OkCalls :
           j # k => CellsOf(j) \cap CellsOf(k) = {}

\* a load that follows a gate that follows a load: rows 0, 1..2 and 3
C9_Witness ==
    /\ Len(calls) >= 3
    /\ \E k \in OkGateCalls :
           /\ k > 1 /\ k < Len(calls)
           /\ calls[k].op \in {"sub", "mul"}
           /\ calls[k + 1].op = "load_private" /\ calls[k + 1].err = "none"
           /\ calls[k + 1].start = calls[k].start + 2

\* ------------------------------------------------------------------------
\* C10
\* ------------------------------------------------------------------------

\* the identity of gate g holds at row: its cells are assigned and, when
\* their values are known, the gate's polynomial is zero there
IdentityHolds(g, row) ==
    LET lhs == Cell(g.a, row)
        rhs == Cell(g.b, row)
        out == Cell(g.a, row + 1)
    IN  /\ {lhs, rhs, out} \subseteq DOMAIN advice
        /\ (IsKnown(advice[lhs]) /\ IsKnown(advice[rhs])) =>
               /\ IsKnown(advice[out])
               /\ GatePoly(g.name, advice[lhs][1], advice[rhs][1],
                           advice[out][1]) = 0

\* C10: with all three gates on the same two columns, after any sequence of
\* calls that returned, every registered identity holds at every row where
\* its selector is enabled; at most one selector is enabled at a row, none
\* on a load_private row, and an enabled selector's row and the next row
\* lie in one region.
C10_IdentitiesHold ==
    ~Failed =>
        /\ \A n \in DOMAIN meta.gates :
               \A e \in selectors :
                   e[1] = meta.gates[n].sel =>
                       IdentityHolds(meta.gates[n], e[2])
        /\ \A e1, e2 \in selectors : e1[2] = e2[2] => e1 = e2
        /\ \A k \in OkCalls :
               calls[k].op = "load_private" =>
                   \A e \in selectors : e[2] # calls[k].start
        /\ \A e \in selectors :
               \E k \in OkGateCalls :
                   /\ calls[k].start = e[2]
                   /\ {e[2], e[2] + 1} \subseteq RowsOf(k)
                   /\ e[1] = SelectorOf(calls[k].op)

\* sub and mul regions with results that the other gates' identities reject
C10_Witness ==
    /\ ~Failed
    /\ \E j, k \in OkGateCalls :
           /\ calls[j].op = "sub" /\ calls[k].op = "mul"
           /\ LET x == handles[calls[j].a].value
                  y == handles[calls[j].b].value
              IN  /\ IsKnown(x) /\ IsKnown(y)
                  /\ PureOp("sub", x[1], y[1]) # PureOp("add", x[1], y[1])
                  /\ PureOp("sub", x[1], y[1]) # PureOp("mul", x[1], y[1])

====
